---- MODULE Spec2Model ----
(***************************************************************************)
(* Model of GF128 (src/src/GF128.cpp): the three doubling routines dbl,    *)
(* dblEAX and dblXTS, in their AVR byte-wise form and their portable       *)
(* word-wise form, and the multiplication facade mulInit / mul that        *)
(* marshals operands to the ECCX08 accelerator.                            *)
(*                                                                         *)
(* A 16-byte buffer is a function 0..15 -> 0..255 indexed by memory        *)
(* offset.  A uint32_t is the set of its one-bit positions (a subset of    *)
(* 0..31, bit 0 least significant), so that 32-bit arithmetic keeps its    *)
(* width.  A 128-bit integer is likewise a subset of 0..127.               *)
(***************************************************************************)
EXTENDS Integers, FiniteSets, Sequences, TLC

\* ---------------------------------------------------------------- bounds
MaxOps == 4
NumSeeds == 6

\* ------------------------------------------------------ bytes and words
Idx == 0..15
Hosts == {"AVR", "LE", "BE"}

Bit(b, i) == (b \div (2^i)) % 2
BitsOf(b) == {i \in 0..7 : Bit(b, i) = 1}
ByteOf(s) == (IF 0 \in s THEN 1 ELSE 0) + (IF 1 \in s THEN 2 ELSE 0)
           + (IF 2 \in s THEN 4 ELSE 0) + (IF 3 \in s THEN 8 ELSE 0)
           + (IF 4 \in s THEN 16 ELSE 0) + (IF 5 \in s THEN 32 ELSE 0)
           + (IF 6 \in s THEN 64 ELSE 0) + (IF 7 \in s THEN 128 ELSE 0)

W32 == 0..31
And32(a, b) == a \cap b
Or32(a, b) == a \cup b
Xor32(a, b) == (a \ b) \cup (b \ a)
Not32(a) == W32 \ a
Shr32(a, n) == {i - n : i \in {j \in a : j >= n}}
Shl32(a, n) == {i + n : i \in {j \in a : j + n <= 31}}
\* a + 1 modulo 2^32
Inc32(a) ==
    IF a = W32 THEN {}
    ELSE LET k == CHOOSE i \in W32 : i \notin a /\ \A j \in 0..(i-1) : j \in a
         IN  (a \ (0..(k-1))) \cup {k}

\* 32-bit literals of the source
Lit01 == {0}
LitE1000000 == {31, 30, 29, 24}
Lit00000087 == {7, 2, 1, 0}

\* byte k of a word, k = 0 least significant
WordByte(w, k) == ByteOf({i - 8*k : i \in {j \in w : j \div 8 = k}})
WordOfBytes(b0, b1, b2, b3) ==
    {i : i \in BitsOf(b0)} \cup {8 + i : i \in BitsOf(b1)}
    \cup {16 + i : i \in BitsOf(b2)} \cup {24 + i : i \in BitsOf(b3)}
bswap32(w) == {8 * (3 - (i \div 8)) + (i % 8) : i \in w}

\* uint32_t array element j of a buffer, read / written by a host of the
\* given byte order (AVR is little-endian)
LoadWord(host, mem, j) ==
    IF host = "BE"
    THEN WordOfBytes(mem[4*j+3], mem[4*j+2], mem[4*j+1], mem[4*j])
    ELSE WordOfBytes(mem[4*j], mem[4*j+1], mem[4*j+2], mem[4*j+3])
StoreWords(host, w) ==
    [k \in Idx |->
        IF host = "BE" THEN WordByte(w[k \div 4], 3 - (k % 4))
        ELSE WordByte(w[k \div 4], k % 4)]

\* utility/EndianUtil.h conversions
be32toh(host, x) == IF host = "BE" THEN x ELSE bswap32(x)
htobe32(host, x) == IF host = "BE" THEN x ELSE bswap32(x)
le32toh(host, x) == IF host = "BE" THEN bswap32(x) ELSE x
htole32(host, x) == IF host = "BE" THEN bswap32(x) ELSE x

\* ------------------------------------------------- AVR instruction set
lsr(r) == [r |-> r \div 2, c |-> r % 2]
ror(r, c) == [r |-> (r \div 2) + 128 * c, c |-> r % 2]
lsl(r) == [r |-> (2 * r) % 256, c |-> r \div 128]
\* rol with the carry-in dropped (lsl in its place)
rolNoCarry(r, c) == [r |-> (2 * r) % 256, c |-> r \div 128]
rol(r, c) == [r |-> ((2 * r) % 256) + c, c |-> r \div 128]
sbc(rd, rr, c) == (rd - rr - c) % 256
andi(r, k) == ByteOf(BitsOf(r) \cap BitsOf(k))
eor(rd, rr) == ByteOf((BitsOf(rd) \ BitsOf(rr)) \cup (BitsOf(rr) \ BitsOf(rd)))

\* ror applied to Z+k, Z+k+1, ..., Z+15 with the carry threaded through
RECURSIVE rorUp(_, _, _)
rorUp(mem, k, c) ==
    IF k > 15 THEN [mem |-> mem, c |-> c]
    ELSE LET x == ror(mem[k], c)
         IN  rorUp([mem EXCEPT ![k] = x.r], k + 1, x.c)

\* rol applied to Z+k, Z+k+1, ..., Z+15
RECURSIVE rolUp(_, _, _)
rolUp(mem, k, c) ==
    IF k > 15 THEN [mem |-> mem, c |-> c]
    ELSE LET x == rol(mem[k], c)
         IN  rolUp([mem EXCEPT ![k] = x.r], k + 1, x.c)

\* rol applied to Z+k, Z+k-1, ..., Z+0
RECURSIVE rolDown(_, _, _)
rolDown(mem, k, c) ==
    IF k < 0 THEN [mem |-> mem, c |-> c]
    ELSE LET x == rol(mem[k], c)
         IN  rolDown([mem EXCEPT ![k] = x.r], k - 1, x.c)

\* ------------------------------------------------------------ GF128::dbl
dblAVR(V) ==
    LET r16  == lsr(V[0])
        t    == rorUp(V, 1, r16.c)
        r17  == andi(sbc(0, 0, t.c), 225)
    IN  [V |-> [t.mem EXCEPT ![0] = eor(r16.r, r17)], mask |-> BitsOf(r17)]

\* dblMask with the "+ 1" of the negation left out
dblMaskNoInc(V3) == And32(Not32(And32(V3, Lit01)), LitE1000000)
\* dblMask testing the top bit of V3 instead of the bottom bit
dblMaskTopBit(V3) == And32(Inc32(Not32(Shr32(V3, 31))), LitE1000000)
dblMask(V3) == And32(Inc32(Not32(And32(V3, Lit01))), LitE1000000)

dblWord(host, V) ==
    LET V0   == be32toh(host, LoadWord(host, V, 0))
        V1   == be32toh(host, LoadWord(host, V, 1))
        V2   == be32toh(host, LoadWord(host, V, 2))
        V3   == be32toh(host, LoadWord(host, V, 3))
        mask == dblMask(V3)
        V3n  == Or32(Shr32(V3, 1), Shl32(V2, 31))
        V2n  == Or32(Shr32(V2, 1), Shl32(V1, 31))
        V1n  == Or32(Shr32(V1, 1), Shl32(V0, 31))
        V0n  == Xor32(Shr32(V0, 1), mask)
    IN  [V |-> StoreWords(host, [j \in 0..3 |->
                 htobe32(host, CASE j = 0 -> V0n [] j = 1 -> V1n
                                 [] j = 2 -> V2n [] OTHER -> V3n)]),
         mask |-> mask]

dbl(host, V) == IF host = "AVR" THEN dblAVR(V) ELSE dblWord(host, V)

\* --------------------------------------------------------- GF128::dblEAX
dblEAXAVR(V) ==
    LET r16  == lsl(V[15])
        t    == rolDown(V, 14, r16.c)
        r17  == andi(sbc(0, 0, t.c), 135)
    IN  [V |-> [t.mem EXCEPT ![15] = eor(r16.r, r17)], mask |-> BitsOf(r17)]

\* dblEAXMask testing the bottom bit of V0 instead of the top bit
dblEAXMaskLowBit(V0) == And32(Inc32(Not32(And32(V0, Lit01))), Lit00000087)
\* dblEAXMask with the "+ 1" of the negation left out
dblEAXMaskNoInc(V0) == And32(Not32(Shr32(V0, 31)), Lit00000087)
dblEAXMask(V0) == And32(Inc32(Not32(Shr32(V0, 31))), Lit00000087)

dblEAXWord(host, V) ==
    LET V0   == be32toh(host, LoadWord(host, V, 0))
        V1   == be32toh(host, LoadWord(host, V, 1))
        V2   == be32toh(host, LoadWord(host, V, 2))
        V3   == be32toh(host, LoadWord(host, V, 3))
        mask == dblEAXMask(V0)
        V0n  == Or32(Shl32(V0, 1), Shr32(V1, 31))
        V1n  == Or32(Shl32(V1, 1), Shr32(V2, 31))
        V2n  == Or32(Shl32(V2, 1), Shr32(V3, 31))
        V3n  == Xor32(Shl32(V3, 1), mask)
    IN  [V |-> StoreWords(host, [j \in 0..3 |->
                 htobe32(host, CASE j = 0 -> V0n [] j = 1 -> V1n
                                 [] j = 2 -> V2n [] OTHER -> V3n)]),
         mask |-> mask]

dblEAX(host, V) == IF host = "AVR" THEN dblEAXAVR(V) ELSE dblEAXWord(host, V)

\* --------------------------------------------------------- GF128::dblXTS
dblXTSAVR(V) ==
    LET r16  == lsl(V[0])
        t    == rolUp(V, 1, r16.c)
        r17  == andi(sbc(0, 0, t.c), 135)
    IN  [V |-> [t.mem EXCEPT ![0] = eor(r16.r, r17)], mask |-> BitsOf(r17)]

\* dblXTSMask testing the bottom bit of V3 instead of the top bit
dblXTSMaskLowBit(V3) == And32(Inc32(Not32(And32(V3, Lit01))), Lit00000087)
\* dblXTSMask with the "+ 1" of the negation left out
dblXTSMaskNoInc(V3) == And32(Not32(Shr32(V3, 31)), Lit00000087)
dblXTSMask(V3) == And32(Inc32(Not32(Shr32(V3, 31))), Lit00000087)

dblXTSWord(host, V) ==
    LET V0   == le32toh(host, LoadWord(host, V, 0))
        V1   == le32toh(host, LoadWord(host, V, 1))
        V2   == le32toh(host, LoadWord(host, V, 2))
        V3   == le32toh(host, LoadWord(host, V, 3))
        mask == dblXTSMask(V3)
        V3n  == Or32(Shl32(V3, 1), Shr32(V2, 31))
        V2n  == Or32(Shl32(V2, 1), Shr32(V1, 31))
        V1n  == Or32(Shl32(V1, 1), Shr32(V0, 31))
        V0n  == Xor32(Shl32(V0, 1), mask)
    IN  [V |-> StoreWords(host, [j \in 0..3 |->
                 htole32(host, CASE j = 0 -> V0n [] j = 1 -> V1n
                                 [] j = 2 -> V2n [] OTHER -> V3n)]),
         mask |-> mask]

dblXTS(host, V) == IF host = "AVR" THEN dblXTSAVR(V) ELSE dblXTSWord(host, V)

\* -------------------------------------------- GF128::mulInit, GF128::mul
\* H after mulInit(H, key), as the 16 bytes of the H array in memory
mulInit(host, key) ==
    IF host = "LE"
    THEN StoreWords(host, [j \in 0..3 |-> be32toh(host, LoadWord(host, key, j))])
    ELSE key

\* Outcomes of ECCX08.aesMultiply
AccStatus == {"ok", "AcceleratorUnavailable", "AcceleratorFault"}

\* mul(Y, H) around a call of aesMultiply whose outcome is acc:
\* the operands handed over, the local result buffer on return, and Y
mul(Y, H, acc) ==
    LET h      == H
        input  == Y
        result == Y
    IN  [input |-> input, h |-> h, result |-> result, Y |-> Y]

\* ------------------------------------------------------------- the state
VARIABLES host, V, pre, mask, lastOp, steps,
          key, H, hReady, accA, accB, accStatus, accResult, result

vars == <<host, V, pre, mask, lastOp, steps,
          key, H, hReady, accA, accB, accStatus, accResult, result>>
mulVars == <<key, H, hReady, accA, accB, accStatus, accResult, result>>

Zero == [k \in Idx |-> 0]
SeedTable == <<
    [k \in Idx |-> IF k = 0 THEN 128 ELSE 0],
    [k \in Idx |-> IF k = 15 THEN 1 ELSE 0],
    [k \in Idx |-> 129],
    Zero,
    [k \in Idx |-> 255],
    [k \in Idx |-> (29 * k + 7) % 256],
    [k \in Idx |-> IF k % 4 = 0 THEN 1 ELSE 0],
    [k \in Idx |-> (53 * k + 170) % 256] >>
Seeds == {SeedTable[n] : n \in 1..NumSeeds}

Init ==
    /\ host \in Hosts
    /\ V \in Seeds
    /\ pre = Zero
    /\ mask = {}
    /\ lastOp = "none"
    /\ steps = 0
    /\ key = Zero
    /\ H = Zero
    /\ hReady = FALSE
    /\ accA = Zero
    /\ accB = Zero
    /\ accStatus = "none"
    /\ accResult = Zero
    /\ result = Zero

Dbl ==
    /\ steps < MaxOps
    /\ pre' = V
    /\ V' = dbl(host, V).V
    /\ mask' = dbl(host, V).mask
    /\ lastOp' = "dbl"
    /\ steps' = steps + 1
    /\ UNCHANGED <<host, mulVars>>

DblEAX ==
    /\ steps < MaxOps
    /\ pre' = V
    /\ V' = dblEAX(host, V).V
    /\ mask' = dblEAX(host, V).mask
    /\ lastOp' = "dblEAX"
    /\ steps' = steps + 1
    /\ UNCHANGED <<host, mulVars>>

DblXTS ==
    /\ steps < MaxOps
    /\ pre' = V
    /\ V' = dblXTS(host, V).V
    /\ mask' = dblXTS(host, V).mask
    /\ lastOp' = "dblXTS"
    /\ steps' = steps + 1
    /\ UNCHANGED <<host, mulVars>>

MulInit ==
    /\ steps < MaxOps
    /\ \E k \in Seeds :
         /\ key' = k
         /\ H' = mulInit(host, k)
    /\ hReady' = TRUE
    /\ lastOp' = "mulInit"
    /\ steps' = steps + 1
    /\ UNCHANGED <<host, V, pre, mask, accA, accB, accStatus, accResult, result>>

Mul ==
    /\ steps < MaxOps
    /\ hReady
    /\ \E st \in AccStatus, p \in Seeds :
         LET acc == [status |-> st, product |-> p]
             r   == mul(V, H, acc)
         IN  /\ accA' = r.input
             /\ accB' = r.h
             /\ accStatus' = st
             /\ accResult' = p
             /\ result' = r.result
             /\ pre' = V
             /\ V' = r.Y
    /\ lastOp' = "mul"
    /\ steps' = steps + 1
    /\ UNCHANGED <<host, mask, key, H, hReady>>

Next == Dbl \/ DblEAX \/ DblXTS
Spec == Init /\ [][Next]_vars

NextMul == MulInit \/ Mul
SpecMul == Init /\ [][NextMul]_vars

\* ------------------------------------------- 128-bit integer arithmetic
\* The 128-bit integer a buffer encodes, and the encodings of an integer
Val128BE(b) == UNION {{8 * (15 - k) + i : i \in BitsOf(b[k])} : k \in Idx}
Val128LE(b) == UNION {{8 * k + i : i \in BitsOf(b[k])} : k \in Idx}
EncBE(X) == [k \in Idx |-> ByteOf({i - 8 * (15 - k) : i \in {j \in X : j \div 8 = 15 - k}})]
EncLE(X) == [k \in Idx |-> ByteOf({i - 8 * k : i \in {j \in X : j \div 8 = k}})]
Shr128(X) == {i - 1 : i \in X \ {0}}
Shl128(X) == {i + 1 : i \in X \ {127}}
Xor128(X, Y) == (X \ Y) \cup (Y \ X)
XorBuf(a, b) == [k \in Idx |-> eor(a[k], b[k])]
PolyGCM == {127, 126, 125, 120}
PolyEAX == {7, 2, 1, 0}
ByteE1Then0 == [k \in Idx |-> IF k = 0 THEN 225 ELSE 0]
Byte40Then0 == [k \in Idx |-> IF k = 0 THEN 64 ELSE 0]
Byte80Then0 == [k \in Idx |-> IF k = 0 THEN 128 ELSE 0]
Byte0Then01 == [k \in Idx |-> IF k = 15 THEN 1 ELSE 0]

\* C1: after a successful accelerator multiply, mul leaves Y equal to the
\* product the accelerator returned.
C1_AccumulatorIsProduct ==
    (lastOp = "mul" /\ accStatus = "ok") => V = accResult

\* C2: a failed accelerator multiply is visible to the caller of mul: what
\* the caller holds after a failed call differs from what it would hold
\* after any successful call on the same operands.
C2_FailureDistinguishable ==
    (lastOp = "mul" /\ accStatus # "ok") =>
        \A p \in Seeds : V # mul(pre, H, [status |-> "ok", product |-> p]).Y

\* C3: dbl leaves the big-endian encoding of (X >> 1) XOR M, where M is
\* 0xE1 in the most significant byte when bit 0 of X was set and 0 otherwise.
C3_DblIsShiftRightReduce ==
    lastOp = "dbl" =>
        LET X == Val128BE(pre)
        IN  V = EncBE(Xor128(Shr128(X), IF 0 \in X THEN PolyGCM ELSE {}))

C3_Witness ==
    /\ lastOp = "dbl" /\ host = "LE"
    /\ 0 \in Val128BE(pre)
    /\ pre[3] % 2 = 1 /\ pre[7] % 2 = 1 /\ pre[11] % 2 = 1
    /\ V[0] >= 224

\* C4: dblEAX leaves the big-endian encoding of ((X << 1) mod 2^128) XOR M,
\* where M is 0x87 in the least significant byte when bit 127 of X was set
\* and 0 otherwise.
C4_DblEAXIsShiftLeftReduce ==
    lastOp = "dblEAX" =>
        LET X == Val128BE(pre)
        IN  V = EncBE(Xor128(Shl128(X), IF 127 \in X THEN PolyEAX ELSE {}))

C4_Witness ==
    /\ lastOp = "dblEAX" /\ host = "LE"
    /\ 127 \in Val128BE(pre)
    /\ pre[4] >= 128 /\ pre[8] >= 128 /\ pre[12] >= 128
    /\ V[15] % 2 = 1

\* C5: dblXTS on the little-endian encoding of a value yields the
\* little-endian encoding of the integer that dblEAX yields on the
\* big-endian encoding of the same value, and conversely.
C5_XTSIsReversedEAX ==
    /\ lastOp = "dblEAX" =>
         dblXTS(host, EncLE(Val128BE(pre))).V = EncLE(Val128BE(V))
    /\ lastOp = "dblXTS" =>
         dblEAX(host, EncBE(Val128LE(pre))).V = EncBE(Val128LE(V))

C5_Witness ==
    /\ lastOp = "dblXTS"
    /\ pre[15] >= 128 /\ pre[3] >= 128
    /\ pre # [k \in Idx |-> pre[15 - k]]
    /\ V # pre

\* C6 as stated: dbl of 0x80 00..00 is 0xE1 followed by 15 zero bytes.
C6_KnownAnswerAsStated ==
    (lastOp = "dbl" /\ pre = Byte80Then0) => V = ByteE1Then0

\* C6 amended: dbl of 0x80 00..00 is 0x40 followed by 15 zero bytes with a
\* zero mask; dbl of 00..00 0x01 is 0xE1 followed by 15 zero bytes.
C6_KnownAnswer ==
    /\ (lastOp = "dbl" /\ pre = Byte80Then0) => (V = Byte40Then0 /\ mask = {})
    /\ (lastOp = "dbl" /\ pre = Byte0Then01) => (V = ByteE1Then0 /\ mask # {})

C6_Witness ==
    lastOp = "dbl" /\ pre = Byte80Then0 /\ V[0] = 64

\* C7: each doubling is linear over GF(2): double(a) XOR double(b) equals
\* double(a XOR b), and the all-zero element doubles to itself.
C7_Linear ==
    /\ lastOp = "dbl" =>
         /\ \A b \in Seeds :
              XorBuf(V, dbl(host, b).V) = dbl(host, XorBuf(pre, b)).V
         /\ pre = Zero => V = Zero
    /\ lastOp = "dblEAX" =>
         /\ \A b \in Seeds :
              XorBuf(V, dblEAX(host, b).V) = dblEAX(host, XorBuf(pre, b)).V
         /\ pre = Zero => V = Zero
    /\ lastOp = "dblXTS" =>
         /\ \A b \in Seeds :
              XorBuf(V, dblXTS(host, b).V) = dblXTS(host, XorBuf(pre, b)).V
         /\ pre = Zero => V = Zero

C7_Witness ==
    /\ lastOp = "dbl" /\ pre[15] % 2 = 1 /\ pre # V
    /\ \E b \in Seeds : b[15] % 2 = 0 /\ b # Zero /\ XorBuf(pre, b) # Zero

\* C8: the operands mul hands to the accelerator are Y as supplied and the
\* 16 key bytes in their original order, on every host configuration.
C8_OperandsInAcceleratorOrder ==
    lastOp = "mul" => (accA = pre /\ accB = key)

\* C9: the reduction mask is 0 or the convention's constant, and it is the
\* constant exactly when the bit shifted out of the 128-bit value is 1.
\* On AVR the mask is the 8-bit register XORed into one byte; it is read at
\* the position of that byte in the word it belongs to.
MaskAsWord ==
    IF host = "AVR" /\ lastOp = "dbl" THEN {i + 24 : i \in mask} ELSE mask

C9_MaskTwoValued ==
    /\ lastOp = "dbl" =>
         /\ MaskAsWord \in {{}, LitE1000000}
         /\ MaskAsWord = LitE1000000 <=> 0 \in Val128BE(pre)
    /\ lastOp = "dblEAX" =>
         /\ MaskAsWord \in {{}, Lit00000087}
         /\ MaskAsWord = Lit00000087 <=> 127 \in Val128BE(pre)
    /\ lastOp = "dblXTS" =>
         /\ MaskAsWord \in {{}, Lit00000087}
         /\ MaskAsWord = Lit00000087 <=> 127 \in Val128LE(pre)

C9_Witness ==
    lastOp = "dblXTS" /\ host = "BE" /\ mask = Lit00000087 /\ steps >= 2

\* C10: the AVR byte-wise path and the portable word-wise path, on a
\* little-endian and on a big-endian host, leave the same 16 bytes.
C10_AVREqualsPortable ==
    /\ lastOp = "dbl" =>
         /\ V = dblAVR(pre).V
         /\ V = dblWord("LE", pre).V
         /\ V = dblWord("BE", pre).V
    /\ lastOp = "dblEAX" =>
         /\ V = dblEAXAVR(pre).V
         /\ V = dblEAXWord("LE", pre).V
         /\ V = dblEAXWord("BE", pre).V
    /\ lastOp = "dblXTS" =>
         /\ V = dblXTSAVR(pre).V
         /\ V = dblXTSWord("LE", pre).V
         /\ V = dblXTSWord("BE", pre).V

C10_Witness ==
    /\ lastOp = "dblEAX" /\ host = "AVR"
    /\ pre[0] >= 128 /\ pre[4] >= 128 /\ V # pre /\ steps >= 2

====
